---- MODULE Spec2Model ----
(***************************************************************************)
(* The notifications API of the qToggleServer frontend                     *)
(* (qtoggleserver/frontend/js/api/notifications.js): the registry of       *)
(* expected events, the event listeners, the long-poll loop on GET /listen *)
(* and the synchronisation callbacks, together with the visibility handler *)
(* of index.js that restarts the loop.                                     *)
(*                                                                         *)
(* JavaScript runs every handler to completion, so each exported function, *)
(* each timer callback and each promise continuation is one atomic action. *)
(* What the environment decides (the clock, the server's answers, the      *)
(* moment a timer fires, the calls of the application) is nondeterministic.*)
(***************************************************************************)
EXTENDS Integers, Sequences, FiniteSets, TLC

(* ------------------------------- bounds -------------------------------- *)

\* last value of the millisecond clock
MaxTime == 2
\* number of expectEvent() calls
MaxHandle == 2
\* the same, where only the lookup of expectations is exercised
MaxFirstHandle == 3
\* number of waitExpectedEvent() calls that attach a handler
MaxWaiters == 2
\* number of registered event listeners
MaxListeners == 1
\* the same, where no poll loop runs
MaxFakeListeners == 2
\* number of events in one /listen response
MaxBatch == 2
\* number of poll cycles (requests in flight plus scheduled wait() calls)
MaxCycles == 2
\* value at which the consecutive error counter stops being incremented
MaxErrors == 3
\* number of registered sync listen callbacks
MaxSyncCallbacks == 1
\* number of deferred sync callback invocations not yet run
MaxDeferred == 1
\* milliseconds that the clock of the sweep runs beyond the default timeout
MaxSweepTime == 2

(* -------------------------- program constants -------------------------- *)

DEFAULT_EXPECT_TIMEOUT == 60000
FAST_RECONNECT_LISTEN_ERRORS == 2
LISTEN_KEEPALIVE == 60
\* APIConstants.SERVER_RETRY_INTERVAL (api/constants.js), in seconds
SERVER_RETRY_INTERVAL == 3

(* ------------------------------- values -------------------------------- *)

\* JavaScript null, for a timestamp, a handle, a timeout and an error
NullTime == 0
NullHandle == 0
NullTimeout == -1
NullError == "null"
NullSession == "null"

\* what params[key] yields for a key that is absent
Undefined == 0

\* an object is its set of <<key, value>> pairs; params may also be null
NullParams == [isNull |-> TRUE, kv |-> {}]
Obj(kv) == [isNull |-> FALSE, kv |-> kv]

\* the {type, params} records the server (or fakeServerEvent) may deliver
EventData ==
    { [type |-> "x", params |-> Obj({<<"id", 1>>, <<"value", 1>>})],
      [type |-> "x", params |-> Obj({<<"id", 2>>})],
      [type |-> "y", params |-> Obj({})] }

\* the (type, params, timeout) arguments of expectEvent()
ExpectArgs ==
    { [type |-> "x", params |-> Obj({<<"id", 1>>}), timeout |-> 0],
      [type |-> "x", params |-> Obj({}), timeout |-> 1],
      [type |-> "x", params |-> NullParams, timeout |-> NullTimeout],
      [type |-> "y", params |-> Obj({<<"id", 1>>}), timeout |-> 0] }

\* the (type, params) arguments of waitExpectedEvent()
WaitArgs ==
    { [type |-> "x", params |-> Obj({<<"id", 1>>, <<"value", 1>>})],
      [type |-> "y", params |-> Obj({})],
      [type |-> "x", params |-> NullParams] }

\* listener callbacks; the second one throws whenever it is called
Callbacks == {"cbOk", "cbThrows"}
Throws(callback) == callback = "cbThrows"

SyncCallbacks == {"syncCb"}
ListenErrors == {"err"}

RECURSIVE SeqsUpTo(_, _)
SeqsUpTo(S, n) ==
    IF n = 0 THEN {<<>>}
    ELSE LET shorter == SeqsUpTo(S, n - 1)
         IN  shorter \cup {Append(s, e) : s \in shorter, e \in S}

\* the responses of GET /listen: a sequence of event records, empty for keep-alive
Batches == SeqsUpTo(EventData, MaxBatch)

Min(S) == CHOOSE m \in S : \A n \in S : m <= n

(* -------------------------------- state -------------------------------- *)

VARIABLES
    now,                      \* new Date().getTime()
    eventListeners,           \* sequence of [callback, thisArg, args]
    expectedEventSpecs,       \* handle -> [type, params, added, timeout, handlers]
    expectedEventLastHandle,
    sessionId,
    listeningTime,
    listenErrorCount,
    ignoreListenErrors,
    syncListenError,
    syncListenCallbacks,      \* sequence of callbacks
    requests,                 \* GET /listen calls in flight
    timers,                   \* scheduled wait() calls: asap(wait), setTimeout(wait, ..)
    deferred,                 \* PromiseUtils.asap().then(..) continuations not yet run
    waiters,                  \* per attached handler, the calls it received (history)
                              \* and whether its promise is settled
    fate,                     \* history: per handle, how its expectation ended
    failures,                 \* history: failures reported since the last success
    last                      \* history: what the last handler did

vars == <<now, eventListeners, expectedEventSpecs, expectedEventLastHandle, sessionId,
          listeningTime, listenErrorCount, ignoreListenErrors, syncListenError,
          syncListenCallbacks, requests, timers, deferred, waiters, fate, failures,
          last>>

registryVars == <<expectedEventSpecs, expectedEventLastHandle, waiters, fate>>
pollVars == <<sessionId, listeningTime, listenErrorCount, syncListenError, requests,
              timers, deferred, failures>>

\* no request: the handler was not a continuation of GET /listen
NoRequest == [requestListeningTime |-> -1, timeout |-> 0, superseded |-> FALSE]

\* no criteria: the handler was not waitExpectedEvent
NoCriteria == [type |-> "", params |-> NullParams]

NoLast ==
    [op |-> "none", threw |-> FALSE, arg |-> 0, batch |-> <<>>, handled |-> <<>>,
     calls |-> <<>>, resolved |-> <<>>, accepted |-> FALSE, request |-> NoRequest,
     scheduled |-> <<>>, notified |-> <<>>, issued |-> 0, order |-> <<>>,
     criteria |-> NoCriteria, errors |-> 0]

(* ------------------------------- Event --------------------------------- *)

\* constructor(type, params, expected = false, fake = false)
Event(type, params, expected, fake) ==
    [type |-> type, params |-> params, expected |-> expected, fake |-> fake]

Clone(event) == Event(event.type, event.params, event.expected, event.fake)

(* ------------------------- expectation registry ------------------------ *)

Get(kv, key) ==
    IF \E p \in kv : p[1] = key THEN (CHOOSE p \in kv : p[1] = key)[2] ELSE Undefined

\* the callback handed to findKey: "yes" when it returns true, "no" when it
\* returns undefined, "throw" when params[key] is evaluated on a null params
MatchOutcome(eventSpec, type, params) ==
    IF eventSpec.type # "" /\ eventSpec.type # type THEN "no"
    ELSE IF eventSpec.params.isNull \/ eventSpec.params.kv = {} THEN "yes"
    ELSE IF params.isNull THEN "throw"
    ELSE IF \E p \in eventSpec.params.kv : Get(params.kv, p[1]) # p[2] THEN "no"
    ELSE "yes"

\* findKey visits the handles in ascending order and stops at the first hit
lookupExpectedEventHandle(specs, type, params) ==
    LET throwers == {h \in DOMAIN specs : MatchOutcome(specs[h], type, params) = "throw"}
        found == {h \in DOMAIN specs : MatchOutcome(specs[h], type, params) = "yes"}
    IN  IF throwers # {} /\ (found = {} \/ Min(throwers) < Min(found))
        THEN [threw |-> TRUE, handle |-> NullHandle]
        ELSE IF found = {} THEN [threw |-> FALSE, handle |-> NullHandle]
        ELSE [threw |-> FALSE, handle |-> Min(found)]

\* as Without, deleting every entry up to the handle
Without_UpTo(specs, handle) == [h \in {k \in DOMAIN specs : k > handle} |-> specs[h]]

Without(specs, handle) == [h \in DOMAIN specs \ {handle} |-> specs[h]]

\* eventSpec.handlers.forEach(h => h(..)): every attached handler records the call
CallHandlers(ws, handlers, call) ==
    [w \in DOMAIN ws |->
        IF \E i \in DOMAIN handlers : handlers[i] = w
        THEN [ws[w] EXCEPT !.calls = Append(@, call)]
        ELSE ws[w]]

Resolve(ft, handle, kind) == [ft EXCEPT ![handle] = Append(@, kind)]

RECURSIVE Ascending(_)
Ascending(S) ==
    IF S = {} THEN <<>>
    ELSE LET m == Min(S) IN <<m>> \o Ascending(S \ {m})

\* as tryMatchExpectedEvent, without the delete
tryMatchExpectedEvent_KeepsEntry(specs, event) ==
    LET m == lookupExpectedEventHandle(specs, event.type, event.params)
    IN  IF m.handle # NullHandle
        THEN [handle |-> m.handle, threw |-> FALSE, handlers |-> specs[m.handle].handlers,
              specs |-> specs]
        ELSE [handle |-> NullHandle, threw |-> m.threw, handlers |-> <<>>, specs |-> specs]

\* the first matching expectation has its handlers called with the event and is deleted
tryMatchExpectedEvent(specs, event) ==
    LET m == lookupExpectedEventHandle(specs, event.type, event.params)
    IN  IF m.handle # NullHandle
        THEN [handle |-> m.handle, threw |-> FALSE, handlers |-> specs[m.handle].handlers,
              specs |-> Without(specs, m.handle)]
        ELSE [handle |-> NullHandle, threw |-> m.threw, handlers |-> <<>>, specs |-> specs]

\* as Expired, but only while the poll loop is listening
Expired_OnlyWhileListening(eventSpec, t) ==
    listeningTime # NullTime /\ t - eventSpec.added > eventSpec.timeout

\* as Expired, an entry expiring as soon as its age reaches its timeout
Expired_AtTimeout(eventSpec, t) == t - eventSpec.added >= eventSpec.timeout

\* delta > eventSpec.timeout
Expired(eventSpec, t) == t - eventSpec.added > eventSpec.timeout

\* as KeptEventSpecs, the filter callback returning true for expired entries too
KeptEventSpecs_KeepsExpired(specs, t) == specs

\* the registry that ObjectUtils.filter leaves in cleanupExpectedEvents
KeptEventSpecs(specs, t) ==
    [h \in {k \in DOMAIN specs : ~Expired(specs[k], t)} |-> specs[h]]

(* ------------------------------ listeners ------------------------------ *)

\* what a listener is handed after the event: a plain value, or the arguments object
\* of a call, holding the values that the call was given
Plain(v) == [kind |-> "value", items |-> <<v>>]
ArgumentsObject(given) == [kind |-> "arguments", items |-> given]

\* thisArg of addEventListener(eventCallback) called without one
NoThis == "undefined"

\* what [event.clone()].concat(listener.args || []) holds after the clone: concat
\* spreads an array, and appends any other object, the arguments object included,
\* as one element
Concatenated(args) ==
    IF args.kind = "array" THEN [i \in DOMAIN args.items |-> Plain(args.items[i])]
    ELSE <<args>>

\* eventListeners.forEach(..): the listeners are called in order, each with its own
\* clone; a listener that throws ends the forEach and the exception propagates
callEventListeners(listeners, event) ==
    LET throwing == {i \in DOMAIN listeners : Throws(listeners[i].callback)}
        upto == IF throwing = {} THEN Len(listeners) ELSE Min(throwing)
    IN  [calls |-> [i \in 1..upto |->
                      [index |-> i, callback |-> listeners[i].callback,
                       event |-> Clone(event), thisArg |-> listeners[i].thisArg,
                       rest |-> Concatenated(listeners[i].args)]],
         threw |-> throwing # {}]

(* ------------------------------ dispatch ------------------------------- *)

\* the order in which event k of a batch is handled: its expectation is resolved
\* (step "resolve"), then the listeners are called (step "call", c the position of
\* the call among the listener calls of the batch)
Steps(k, handle, calls, lc) ==
    (IF handle # NullHandle THEN <<[step |-> "resolve", k |-> k, c |-> 0]>> ELSE <<>>)
       \o [i \in DOMAIN lc.calls |-> [step |-> "call", k |-> k, c |-> Len(calls) + i]]

\* The handlers of a matched expectation receive a reference to the event object and
\* read it only in their deferred continuation, so what they see is the object as the
\* dispatching function leaves it.
Delivered(st, m, event, lc) ==
    [specs |-> m.specs,
     ws |-> CallHandlers(st.ws, m.handlers, [kind |-> "event", event |-> event]),
     ft |-> IF m.handle # NullHandle THEN Resolve(st.ft, m.handle, "matched") ELSE st.ft,
     handled |-> Append(st.handled, event),
     calls |-> st.calls \o lc.calls,
     order |-> st.order \o Steps(Len(st.handled) + 1, m.handle, st.calls, lc),
     resolved |-> IF m.handle # NullHandle
                  THEN Append(st.resolved,
                              [handle |-> m.handle, kind |-> "matched", event |-> event])
                  ELSE st.resolved,
     threw |-> lc.threw]

\* the expected flag that handleServerEvent and fakeServerEvent leave on the event
ExpectedFlag(event, handle) == IF handle # NullHandle THEN TRUE ELSE event.expected

\* as handleServerEvent, the listeners being called before the flag is set
handleServerEvent_ListenersFirst(st, listeners, eventData) ==
    LET event0 == Event(eventData.type, eventData.params, FALSE, FALSE)
        m == tryMatchExpectedEvent(st.specs, event0)
        event == [event0 EXCEPT !.expected = ExpectedFlag(event0, m.handle)]
    IN  IF m.threw THEN [st EXCEPT !.threw = TRUE]
        ELSE Delivered(st, m, event, callEventListeners(listeners, event0))

handleServerEvent(st, listeners, eventData) ==
    LET event0 == Event(eventData.type, eventData.params, FALSE, FALSE)
        m == tryMatchExpectedEvent(st.specs, event0)
        event == [event0 EXCEPT !.expected = ExpectedFlag(event0, m.handle)]
    IN  IF m.threw THEN [st EXCEPT !.threw = TRUE]
        ELSE Delivered(st, m, event, callEventListeners(listeners, event))

fakeServerEvent(st, listeners, eventData) ==
    LET event0 == Event(eventData.type, eventData.params, FALSE, FALSE)
        m == tryMatchExpectedEvent(st.specs, event0)
        event == [event0 EXCEPT !.expected = ExpectedFlag(event0, m.handle), !.fake = TRUE]
    IN  IF m.threw THEN [st EXCEPT !.threw = TRUE]
        ELSE Delivered(st, m, event, callEventListeners(listeners, event))

\* result.forEach(handleServerEvent): in server order, until an exception
RECURSIVE HandleBatch(_, _, _)
HandleBatch(st, listeners, batch) ==
    IF batch = <<>> \/ st.threw THEN st
    ELSE HandleBatch(handleServerEvent(st, listeners, Head(batch)), listeners, Tail(batch))

DispatchState ==
    [specs |-> expectedEventSpecs, ws |-> waiters, ft |-> fate, handled |-> <<>>,
     calls |-> <<>>, order |-> <<>>, resolved |-> <<>>, threw |-> FALSE]

(* -------------------------------- Init --------------------------------- *)

Init ==
    /\ now = 1
    /\ eventListeners = <<>>
    /\ expectedEventSpecs = <<>>
    /\ expectedEventLastHandle = 0
    /\ sessionId = NullSession
    /\ listeningTime = NullTime
    /\ listenErrorCount = 0
    /\ ignoreListenErrors = FALSE
    /\ syncListenError = NullError
    /\ syncListenCallbacks = <<>>
    /\ requests = <<>>
    /\ timers = <<>>
    /\ deferred = <<>>
    /\ waiters = <<>>
    /\ fate = [h \in 1..MaxHandle |-> <<>>]
    /\ failures = 0
    /\ last = NoLast

(* ------------------------- actions: the clock -------------------------- *)

Tick ==
    /\ now < MaxTime
    /\ now' = now + 1
    /\ last' = [NoLast EXCEPT !.op = "tick"]
    /\ UNCHANGED <<eventListeners, registryVars, pollVars, ignoreListenErrors,
                   syncListenCallbacks>>

(* ------------------- actions: expectation registry --------------------- *)

\* as ExpectEventUpTo, the handle being the number of pending expectations plus one
ExpectEventUpTo_CountsEntries(a, most) ==
    LET timeout == IF a.timeout = NullTimeout THEN DEFAULT_EXPECT_TIMEOUT ELSE a.timeout
        handle == Cardinality(DOMAIN expectedEventSpecs) + 1
    IN  /\ expectedEventLastHandle < most
        /\ expectedEventLastHandle' = handle
        /\ expectedEventSpecs' =
             [h \in DOMAIN expectedEventSpecs \cup {handle} |->
                IF h = handle
                THEN [type |-> a.type, params |-> a.params, added |-> now,
                      timeout |-> timeout, handlers |-> <<>>]
                ELSE expectedEventSpecs[h]]
        /\ last' = [NoLast EXCEPT !.op = "expectEvent", !.arg = handle]
        /\ UNCHANGED <<now, eventListeners, waiters, fate, pollVars, ignoreListenErrors,
                       syncListenCallbacks>>

\* expectEvent(), at most `most` handles being handed out
ExpectEventUpTo(a, most) ==
    LET timeout == IF a.timeout = NullTimeout THEN DEFAULT_EXPECT_TIMEOUT ELSE a.timeout
        handle == expectedEventLastHandle + 1
    IN  /\ expectedEventLastHandle < most
        /\ expectedEventLastHandle' = handle
        /\ expectedEventSpecs' =
             [h \in DOMAIN expectedEventSpecs \cup {handle} |->
                IF h = handle
                THEN [type |-> a.type, params |-> a.params, added |-> now,
                      timeout |-> timeout, handlers |-> <<>>]
                ELSE expectedEventSpecs[h]]
        /\ last' = [NoLast EXCEPT !.op = "expectEvent", !.arg = handle]
        /\ UNCHANGED <<now, eventListeners, waiters, fate, pollVars, ignoreListenErrors,
                       syncListenCallbacks>>

ExpectEvent(a) == ExpectEventUpTo(a, MaxHandle)

\* as UnexpectEvent, the handlers being given the error of the sweep
UnexpectEvent_TimeoutError(handle) ==
    LET known == handle \in DOMAIN expectedEventSpecs
    IN  /\ waiters' =
             IF known
             THEN CallHandlers(waiters, expectedEventSpecs[handle].handlers,
                               [kind |-> "timeout"])
             ELSE waiters
        /\ fate' = IF known THEN Resolve(fate, handle, "cancelled") ELSE fate
        /\ expectedEventSpecs' = Without(expectedEventSpecs, handle)
        /\ last' = [NoLast EXCEPT !.op = "unexpectEvent", !.arg = handle,
                      !.resolved = IF known
                                   THEN <<[handle |-> handle, kind |-> "cancelled"]>>
                                   ELSE <<>>]
        /\ UNCHANGED <<now, eventListeners, expectedEventLastHandle, pollVars,
                       ignoreListenErrors, syncListenCallbacks>>

\* as UnexpectEvent, without the delete
UnexpectEvent_KeepsEntry(handle) ==
    LET known == handle \in DOMAIN expectedEventSpecs
    IN  /\ waiters' =
             IF known
             THEN CallHandlers(waiters, expectedEventSpecs[handle].handlers,
                               [kind |-> "cancelled"])
             ELSE waiters
        /\ fate' = IF known THEN Resolve(fate, handle, "cancelled") ELSE fate
        /\ last' = [NoLast EXCEPT !.op = "unexpectEvent", !.arg = handle,
                      !.resolved = IF known
                                   THEN <<[handle |-> handle, kind |-> "cancelled"]>>
                                   ELSE <<>>]
        /\ UNCHANGED <<now, eventListeners, expectedEventSpecs, expectedEventLastHandle,
                       pollVars, ignoreListenErrors, syncListenCallbacks>>

UnexpectEvent(handle) ==
    LET known == handle \in DOMAIN expectedEventSpecs
    IN  /\ waiters' =
             IF known
             THEN CallHandlers(waiters, expectedEventSpecs[handle].handlers,
                               [kind |-> "cancelled"])
             ELSE waiters
        /\ fate' = IF known THEN Resolve(fate, handle, "cancelled") ELSE fate
        /\ expectedEventSpecs' = Without(expectedEventSpecs, handle)
        /\ last' = [NoLast EXCEPT !.op = "unexpectEvent", !.arg = handle,
                      !.resolved = IF known
                                   THEN <<[handle |-> handle, kind |-> "cancelled"]>>
                                   ELSE <<>>]
        /\ UNCHANGED <<now, eventListeners, expectedEventLastHandle, pollVars,
                       ignoreListenErrors, syncListenCallbacks>>

WaitExpectedEvent(a) ==
    LET m == lookupExpectedEventHandle(expectedEventSpecs, a.type, a.params)
        w == Len(waiters) + 1
    IN  /\ m.handle # NullHandle => Len(waiters) < MaxWaiters
        /\ IF m.handle # NullHandle
           THEN /\ waiters' = Append(waiters, [handle |-> m.handle, calls |-> <<>>,
                                              settled |-> FALSE])
                /\ expectedEventSpecs' =
                     [expectedEventSpecs EXCEPT ![m.handle].handlers = Append(@, w)]
           ELSE UNCHANGED <<waiters, expectedEventSpecs>>
        /\ last' = [NoLast EXCEPT !.op = "waitExpectedEvent", !.threw = m.threw,
                      !.arg = m.handle, !.criteria = a]
        /\ UNCHANGED <<now, eventListeners, expectedEventLastHandle, fate, pollVars,
                       ignoreListenErrors, syncListenCallbacks>>

\* the inner asap() callback of a handler that was called runs: the promise that
\* waitExpectedEvent() returned is settled
Settle(w) ==
    /\ w \in DOMAIN waiters
    /\ waiters[w].calls # <<>>
    /\ ~waiters[w].settled
    /\ waiters' = [waiters EXCEPT ![w].settled = TRUE]
    /\ last' = [NoLast EXCEPT !.op = "settle", !.arg = w]
    /\ UNCHANGED <<now, eventListeners, expectedEventSpecs, expectedEventLastHandle, fate,
                   pollVars, ignoreListenErrors, syncListenCallbacks>>

CleanupExpectedEvents ==
    LET expired == {h \in DOMAIN expectedEventSpecs : Expired(expectedEventSpecs[h], now)}
        handlers == {w \in DOMAIN waiters :
                       \E h \in expired : \E i \in DOMAIN expectedEventSpecs[h].handlers :
                          expectedEventSpecs[h].handlers[i] = w}
    IN  /\ expectedEventSpecs' = KeptEventSpecs(expectedEventSpecs, now)
        /\ waiters' = [w \in DOMAIN waiters |->
                         IF w \in handlers
                         THEN [waiters[w] EXCEPT !.calls = Append(@, [kind |-> "timeout"])]
                         ELSE waiters[w]]
        /\ fate' = [h \in DOMAIN fate |->
                      IF h \in expired THEN Append(fate[h], "timeout") ELSE fate[h]]
        /\ last' = [NoLast EXCEPT !.op = "cleanupExpectedEvents",
                      !.resolved = [i \in 1..Cardinality(expired) |->
                                      [handle |-> Ascending(expired)[i], kind |-> "timeout"]]]
        /\ UNCHANGED <<now, eventListeners, expectedEventLastHandle, pollVars,
                       ignoreListenErrors, syncListenCallbacks>>

FakeServerEvent(eventData) ==
    LET st == fakeServerEvent(DispatchState, eventListeners, eventData)
    IN  /\ expectedEventSpecs' = st.specs
        /\ waiters' = st.ws
        /\ fate' = st.ft
        /\ last' = [NoLast EXCEPT !.op = "fakeServerEvent", !.threw = st.threw,
                      !.batch = <<eventData>>, !.handled = st.handled,
                      !.calls = st.calls, !.resolved = st.resolved, !.order = st.order]
        /\ UNCHANGED <<now, eventListeners, expectedEventLastHandle, pollVars,
                       ignoreListenErrors, syncListenCallbacks>>

(* ------------------------- actions: listeners -------------------------- *)

\* PromiseUtils.asap() defers a sync callback invocation to the end of the turn
\* that scheduled it: the next handler starts when none is left to run
TurnEnded == deferred = <<>>

\* addEventListener(eventCallback, thisArg, ..) called with the values `given`, the
\* registry holding at most `most` listeners
AddEventListenerGiven(given, most) ==
    /\ TurnEnded
    /\ Len(eventListeners) < most
    /\ eventListeners' =
          Append(eventListeners,
                 [callback |-> given[1],
                  thisArg |-> IF Len(given) >= 2 THEN given[2] ELSE NoThis,
                  args |-> ArgumentsObject(given)])
    /\ last' = [NoLast EXCEPT !.op = "addEventListener"]
    /\ UNCHANGED <<now, registryVars, pollVars, ignoreListenErrors, syncListenCallbacks>>

\* addEventListener(callback)
AddEventListenerUpTo(callback, most) == AddEventListenerGiven(<<callback>>, most)

AddEventListener(callback) == AddEventListenerUpTo(callback, MaxListeners)

RemoveEventListener(callback) ==
    LET found == {i \in DOMAIN eventListeners : eventListeners[i].callback = callback}
    IN  /\ TurnEnded
        /\ eventListeners' =
             IF found = {} THEN eventListeners
             ELSE LET index == Min(found)
                  IN  SubSeq(eventListeners, 1, index - 1)
                         \o SubSeq(eventListeners, index + 1, Len(eventListeners))
        /\ last' = [NoLast EXCEPT !.op = "removeEventListener", !.arg = callback]
        /\ UNCHANGED <<now, registryVars, pollVars, ignoreListenErrors, syncListenCallbacks>>

(* ------------------------------ poll loop ------------------------------ *)

RemoveAt(seq, i) == SubSeq(seq, 1, i - 1) \o SubSeq(seq, i + 1, Len(seq))

\* sessionId after the first lines of wait()
WaitSessionId(sid) == IF sid = NullSession THEN "qtoggleserverui" ELSE sid

\* the timeout query parameter of GET /listen
ListenTimeout(sle, firstQuick) ==
    IF sle # NullError \/ firstQuick THEN 1 ELSE LISTEN_KEEPALIVE

\* the request that wait(firstQuick) issues; requestListeningTime is captured from
\* listeningTime at the call.  superseded is history: stopListening() or
\* startListening() ran after the request was issued.
wait(firstQuick, lt, sle) ==
    [requestListeningTime |-> lt, timeout |-> ListenTimeout(sle, firstQuick),
     superseded |-> FALSE]

Supersede(reqs) == [i \in DOMAIN reqs |-> [reqs[i] EXCEPT !.superseded = TRUE]]

\* the responses that the guard at the top of both continuations lets through
Accepted(lt, request) == lt = request.requestListeningTime

\* syncListenCallbacks.forEach(c => PromiseUtils.asap().then(..))
SyncNotifications(callbacks, withError, reconnectSeconds) ==
    [i \in DOMAIN callbacks |->
       [callback |-> callbacks[i], withError |-> withError,
        reconnectSeconds |-> reconnectSeconds]]

\* as EscapesTry, without the try...catch block
EscapesTry_NoTryBlock(threw) == threw

\* whether an exception raised while the batch is processed leaves the then()
\* continuation and reaches the catch() continuation: the try...catch block stops it
EscapesTry(threw) == FALSE

\* as ReconnectSeconds, comparing with < instead of <=
ReconnectSeconds_StrictlyLess(errorCount) ==
    IF errorCount < FAST_RECONNECT_LISTEN_ERRORS THEN 1 ELSE SERVER_RETRY_INTERVAL

\* the delay of the next cycle after a failure that is not ignored
ReconnectSeconds(errorCount) ==
    IF errorCount <= FAST_RECONNECT_LISTEN_ERRORS THEN 1 ELSE SERVER_RETRY_INTERVAL

PollState ==
    [listenErrorCount |-> listenErrorCount, syncListenError |-> syncListenError,
     timers |-> timers, deferred |-> deferred, dispatch |-> DispatchState,
     accepted |-> FALSE, reported |-> FALSE, succeeded |-> FALSE, escaped |-> FALSE,
     scheduled |-> <<>>, notified |-> <<>>]

\* as ListenThen, without the reset of listenErrorCount
ListenThen_KeepsErrorCount(s, request, result) ==
    IF ~Accepted(listeningTime, request) THEN s
    ELSE LET notified == SyncNotifications(syncListenCallbacks, FALSE, 0)
             st == HandleBatch(s.dispatch, eventListeners, result)
         IN  [s EXCEPT !.accepted = TRUE,
                       !.succeeded = TRUE,
                       !.timers = Append(@, [delay |-> 0]),
                       !.scheduled = Append(@, 0),
                       !.syncListenError = NullError,
                       !.deferred = @ \o notified,
                       !.notified = @ \o notified,
                       !.dispatch = st,
                       !.escaped = EscapesTry(st.threw)]

\* .then(function (result) {..})
ListenThen(s, request, result) ==
    IF ~Accepted(listeningTime, request) THEN s
    ELSE LET notified == SyncNotifications(syncListenCallbacks, FALSE, 0)
             st == HandleBatch(s.dispatch, eventListeners, result)
         IN  [s EXCEPT !.accepted = TRUE,
                       !.succeeded = TRUE,
                       !.timers = Append(@, [delay |-> 0]),
                       !.scheduled = Append(@, 0),
                       !.syncListenError = NullError,
                       !.listenErrorCount = 0,
                       !.deferred = @ \o notified,
                       !.notified = @ \o notified,
                       !.dispatch = st,
                       !.escaped = EscapesTry(st.threw)]

\* as Reschedule, the next cycle being scheduled in the fast-reconnect window only
Reschedule_FastOnly(s, reconnectSeconds) ==
    IF reconnectSeconds = 1
    THEN [s EXCEPT !.timers = Append(@, [delay |-> reconnectSeconds * 1000]),
                   !.scheduled = Append(@, reconnectSeconds * 1000)]
    ELSE s

\* setTimeout(wait, reconnectSeconds * 1000)
Reschedule(s, reconnectSeconds) ==
    [s EXCEPT !.timers = Append(@, [delay |-> reconnectSeconds * 1000]),
              !.scheduled = Append(@, reconnectSeconds * 1000)]

\* as Reported, without the notification of the sync callbacks
Reported_NotNotified(s, error) ==
    [s EXCEPT !.syncListenError = error,
              !.listenErrorCount = @ + 1]

\* the else branch: the error is recorded, counted and reported to the sync callbacks
Reported(s, error) ==
    LET notified == SyncNotifications(syncListenCallbacks, TRUE,
                                      ReconnectSeconds(s.listenErrorCount + 1))
    IN  [s EXCEPT !.syncListenError = error,
                  !.listenErrorCount = @ + 1,
                  !.deferred = @ \o notified,
                  !.notified = @ \o notified]

\* as ListenCatch, without the ignoreListenErrors branch
ListenCatch_NeverIgnores(s, request, error) ==
    IF ~Accepted(listeningTime, request) THEN s
    ELSE Reschedule(Reported([s EXCEPT !.accepted = TRUE, !.reported = TRUE], error),
                    ReconnectSeconds(s.listenErrorCount + 1))

\* as ListenCatch, an ignored failure being counted too
ListenCatch_CountsIgnored(s, request, error) ==
    IF ~Accepted(listeningTime, request) THEN s
    ELSE IF ignoreListenErrors
    THEN Reschedule([s EXCEPT !.accepted = TRUE, !.listenErrorCount = @ + 1],
                    SERVER_RETRY_INTERVAL)
    ELSE Reschedule(Reported([s EXCEPT !.accepted = TRUE, !.reported = TRUE], error),
                    ReconnectSeconds(s.listenErrorCount + 1))

\* .catch(function (error) {..})
ListenCatch(s, request, error) ==
    IF ~Accepted(listeningTime, request) THEN s
    ELSE IF ignoreListenErrors
    THEN Reschedule([s EXCEPT !.accepted = TRUE], SERVER_RETRY_INTERVAL)
    ELSE Reschedule(Reported([s EXCEPT !.accepted = TRUE, !.reported = TRUE], error),
                    ReconnectSeconds(s.listenErrorCount + 1))

\* what both continuations of the apiCall promise leave behind
Responded(op, i, s, result) ==
    /\ TurnEnded
    /\ Len(s.deferred) > Len(deferred) => Len(s.deferred) <= MaxDeferred
    /\ s.listenErrorCount <= MaxErrors
    /\ requests' = RemoveAt(requests, i)
    /\ listenErrorCount' = s.listenErrorCount
    /\ syncListenError' = s.syncListenError
    /\ timers' = s.timers
    /\ deferred' = s.deferred
    /\ expectedEventSpecs' = s.dispatch.specs
    /\ waiters' = s.dispatch.ws
    /\ fate' = s.dispatch.ft
    /\ failures' = IF s.reported THEN failures + 1 ELSE IF s.succeeded THEN 0 ELSE failures
    /\ last' = [NoLast EXCEPT !.op = op, !.accepted = s.accepted,
                  !.request = requests[i],
                  !.threw = s.dispatch.threw, !.batch = result,
                  !.handled = s.dispatch.handled, !.calls = s.dispatch.calls,
                  !.resolved = s.dispatch.resolved, !.scheduled = s.scheduled,
                  !.notified = s.notified, !.order = s.dispatch.order,
                  !.errors = listenErrorCount]
    /\ UNCHANGED <<now, eventListeners, expectedEventLastHandle, sessionId, listeningTime,
                   ignoreListenErrors, syncListenCallbacks>>

\* GET /listen answers with a batch of events
ListenSuccess(i, result) ==
    LET s1 == ListenThen(PollState, requests[i], result)
        s2 == IF s1.escaped THEN ListenCatch(s1, requests[i], "exception") ELSE s1
    IN  Responded("listenSuccess", i, s2, result)

\* GET /listen fails
ListenFailure(i, error) ==
    Responded("listenFailure", i, ListenCatch(PollState, requests[i], error), <<>>)

\* a scheduled wait() call runs: asap(wait) or setTimeout(wait, ..)
WaitTimer(i) ==
    /\ TurnEnded
    /\ timers' = RemoveAt(timers, i)
    /\ sessionId' = WaitSessionId(sessionId)
    /\ requests' = Append(requests, wait(FALSE, listeningTime, syncListenError))
    /\ last' = [NoLast EXCEPT !.op = "wait", !.issued = 1, !.arg = timers[i].delay]
    /\ UNCHANGED <<now, eventListeners, registryVars, listeningTime, listenErrorCount,
                   syncListenError, deferred, failures, ignoreListenErrors,
                   syncListenCallbacks>>

\* as StartListening, without the assertion
StartListening_NoAssertion ==
    /\ TurnEnded
    /\ Len(requests) + Len(timers) < MaxCycles
    /\ listeningTime' = now
    /\ sessionId' = WaitSessionId(sessionId)
    /\ requests' = Append(Supersede(requests), wait(TRUE, now, syncListenError))
    /\ last' = [NoLast EXCEPT !.op = "startListening", !.issued = 1]
    /\ UNCHANGED <<now, eventListeners, registryVars, listenErrorCount,
                   syncListenError, timers, deferred, failures, ignoreListenErrors,
                   syncListenCallbacks>>

StartListening ==
    IF listeningTime # NullTime
    THEN /\ TurnEnded
         /\ last' = [NoLast EXCEPT !.op = "startListening", !.threw = TRUE]
         /\ UNCHANGED <<now, eventListeners, registryVars, pollVars, ignoreListenErrors,
                        syncListenCallbacks>>
    ELSE /\ TurnEnded
         /\ Len(requests) + Len(timers) < MaxCycles
         /\ listeningTime' = now
         /\ sessionId' = WaitSessionId(sessionId)
         /\ requests' = Append(Supersede(requests), wait(TRUE, now, syncListenError))
         /\ last' = [NoLast EXCEPT !.op = "startListening", !.issued = 1]
         /\ UNCHANGED <<now, eventListeners, registryVars, listenErrorCount,
                        syncListenError, timers, deferred, failures, ignoreListenErrors,
                        syncListenCallbacks>>

\* as StopListening, the recorded error and the error counter being cleared too
StopListening_ClearsErrors ==
    /\ TurnEnded
    /\ listeningTime' = NullTime
    /\ requests' = IF listeningTime # NullTime THEN Supersede(requests) ELSE requests
    /\ listenErrorCount' = 0
    /\ syncListenError' = NullError
    /\ last' = [NoLast EXCEPT !.op = "stopListening"]
    /\ UNCHANGED <<now, eventListeners, registryVars, sessionId, timers, deferred,
                   failures, ignoreListenErrors, syncListenCallbacks>>

StopListening ==
    /\ TurnEnded
    /\ listeningTime' = NullTime
    /\ requests' = IF listeningTime # NullTime THEN Supersede(requests) ELSE requests
    /\ last' = [NoLast EXCEPT !.op = "stopListening"]
    /\ UNCHANGED <<now, eventListeners, registryVars, sessionId, listenErrorCount,
                   syncListenError, timers, deferred, failures, ignoreListenErrors,
                   syncListenCallbacks>>

\* index.js: the application becomes visible while listening; stopListening()
\* followed at once by startListening()
VisibilityChange ==
    /\ TurnEnded
    /\ listeningTime # NullTime
    /\ Len(requests) + Len(timers) < MaxCycles
    /\ listeningTime' = now
    /\ sessionId' = WaitSessionId(sessionId)
    /\ requests' = Append(Supersede(requests), wait(TRUE, now, syncListenError))
    /\ last' = [NoLast EXCEPT !.op = "visibilityChange", !.issued = 1]
    /\ UNCHANGED <<now, eventListeners, registryVars, listenErrorCount, syncListenError,
                   timers, deferred, failures, ignoreListenErrors, syncListenCallbacks>>

AddSyncListenCallback(callback) ==
    /\ TurnEnded
    /\ Len(syncListenCallbacks) < MaxSyncCallbacks
    /\ syncListenCallbacks' = Append(syncListenCallbacks, callback)
    /\ last' = [NoLast EXCEPT !.op = "addSyncListenCallback"]
    /\ UNCHANGED <<now, eventListeners, registryVars, pollVars, ignoreListenErrors>>

SetIgnoreListenErrors(ignore) ==
    /\ TurnEnded
    /\ ignoreListenErrors' = ignore
    /\ last' = [NoLast EXCEPT !.op = "setIgnoreListenErrors"]
    /\ UNCHANGED <<now, eventListeners, registryVars, pollVars, syncListenCallbacks>>

\* a deferred sync callback invocation runs; on failure the closure reads
\* syncListenError when it runs
SyncCallback ==
    /\ deferred # <<>>
    /\ deferred' = Tail(deferred)
    /\ last' = [NoLast EXCEPT !.op = "syncCallback",
                  !.arg = [callback |-> Head(deferred).callback,
                           error |-> IF Head(deferred).withError
                                     THEN syncListenError ELSE NullError,
                           reconnectSeconds |-> Head(deferred).reconnectSeconds]]
    /\ UNCHANGED <<now, eventListeners, registryVars, sessionId, listeningTime,
                   listenErrorCount, syncListenError, requests, timers, failures,
                   ignoreListenErrors, syncListenCallbacks>>

(* ---------------------------- specification ---------------------------- *)

\* the expectation registry and the listeners, fed by fake events and by one poll loop
RegistryNext ==
    \/ Tick
    \/ \E a \in ExpectArgs : ExpectEvent(a)
    \/ \E handle \in 1..MaxHandle : UnexpectEvent(handle)
    \/ \E a \in WaitArgs : WaitExpectedEvent(a)
    \/ CleanupExpectedEvents
    \/ \E eventData \in EventData : FakeServerEvent(eventData)
    \/ \E callback \in Callbacks : AddEventListener(callback)
    \/ \E callback \in Callbacks : RemoveEventListener(callback)
    \/ StartListening
    \/ \E i \in DOMAIN timers : WaitTimer(i)
    \/ \E i \in DOMAIN requests : \E result \in Batches : ListenSuccess(i, result)

\* the poll loop and the listeners its events reach
PollNext ==
    \/ Tick
    \/ \E callback \in Callbacks : AddEventListener(callback)
    \/ \E callback \in SyncCallbacks : AddSyncListenCallback(callback)
    \/ \E ignore \in BOOLEAN : SetIgnoreListenErrors(ignore)
    \/ StartListening
    \/ StopListening
    \/ VisibilityChange
    \/ \E i \in DOMAIN timers : WaitTimer(i)
    \/ \E i \in DOMAIN requests : \E result \in Batches : ListenSuccess(i, result)
    \/ \E i \in DOMAIN requests : \E error \in ListenErrors : ListenFailure(i, error)
    \/ SyncCallback

Next == RegistryNext \/ PollNext

Spec == Init /\ [][Next]_vars
SpecRegistry == Init /\ [][RegistryNext]_vars
SpecPoll == Init /\ [][PollNext]_vars

\* the expectation registry and two listeners, fed by fake events only
FakeNext ==
    \/ Tick
    \/ \E a \in ExpectArgs : ExpectEvent(a)
    \/ \E handle \in 1..MaxHandle : UnexpectEvent(handle)
    \/ \E a \in WaitArgs : WaitExpectedEvent(a)
    \/ CleanupExpectedEvents
    \/ \E eventData \in EventData : FakeServerEvent(eventData)
    \/ \E callback \in Callbacks : AddEventListenerUpTo(callback, MaxFakeListeners)
    \/ \E callback \in Callbacks : RemoveEventListener(callback)

SpecFake == Init /\ [][FakeNext]_vars

\* the state after construction, with room for the history of MaxFirstHandle handles
FirstInit ==
    /\ now = 1
    /\ eventListeners = <<>>
    /\ expectedEventSpecs = <<>>
    /\ expectedEventLastHandle = 0
    /\ sessionId = NullSession
    /\ listeningTime = NullTime
    /\ listenErrorCount = 0
    /\ ignoreListenErrors = FALSE
    /\ syncListenError = NullError
    /\ syncListenCallbacks = <<>>
    /\ requests = <<>>
    /\ timers = <<>>
    /\ deferred = <<>>
    /\ waiters = <<>>
    /\ fate = [h \in 1..MaxFirstHandle |-> <<>>]
    /\ failures = 0
    /\ last = NoLast

\* three expectations, joined by waitExpectedEvent and ended by fake events and
\* cancellations
FirstNext ==
    \/ \E a \in ExpectArgs : ExpectEventUpTo(a, MaxFirstHandle)
    \/ \E handle \in 1..MaxFirstHandle : UnexpectEvent(handle)
    \/ \E a \in WaitArgs : WaitExpectedEvent(a)
    \/ \E eventData \in EventData : FakeServerEvent(eventData)

SpecFirst == FirstInit /\ [][FirstNext]_vars

\* the (type, params) of one expectation: the type unset (null) or set, the params
\* unset (null), empty, or with keys, one of them holding the value undefined
MatchEntries ==
    {[type |-> type, params |-> params] :
       type \in {"", "x", "y"},
       params \in {NullParams, Obj({}), Obj({<<"id", 1>>}), Obj({<<"id", 2>>}),
                   Obj({<<"id", 1>>, <<"value", 1>>}), Obj({<<"id", Undefined>>})}}

\* the (type, params) that an event or a call of waitExpectedEvent hands to the lookup
MatchCandidates ==
    {[type |-> type, params |-> params] :
       type \in {"x", "y"},
       params \in {NullParams, Obj({}), Obj({<<"id", 1>>}), Obj({<<"value", 1>>}),
                   Obj({<<"id", 1>>, <<"value", 1>>}), Obj({<<"id", 2>>, <<"value", 1>>})}}

\* the state after one call expectEvent(type, params)
MatchInit ==
    /\ now = 1
    /\ eventListeners = <<>>
    /\ \E entry \in MatchEntries :
         expectedEventSpecs =
            <<[type |-> entry.type, params |-> entry.params, added |-> 1,
               timeout |-> DEFAULT_EXPECT_TIMEOUT, handlers |-> <<>>]>>
    /\ expectedEventLastHandle = 1
    /\ sessionId = NullSession
    /\ listeningTime = NullTime
    /\ listenErrorCount = 0
    /\ ignoreListenErrors = FALSE
    /\ syncListenError = NullError
    /\ syncListenCallbacks = <<>>
    /\ requests = <<>>
    /\ timers = <<>>
    /\ deferred = <<>>
    /\ waiters = <<>>
    /\ fate = [h \in 1..MaxHandle |-> <<>>]
    /\ failures = 0
    /\ last = [NoLast EXCEPT !.op = "expectEvent", !.arg = 1]

\* lookupExpectedEventHandle({type, params}) applied to the registry
LookupExpectedEventHandle(criteria) ==
    LET m == lookupExpectedEventHandle(expectedEventSpecs, criteria.type, criteria.params)
    IN  /\ last' = [NoLast EXCEPT !.op = "lookupExpectedEventHandle", !.threw = m.threw,
                      !.arg = m.handle, !.criteria = criteria]
        /\ UNCHANGED <<now, eventListeners, registryVars, pollVars, ignoreListenErrors,
                       syncListenCallbacks>>

MatchNext == \E criteria \in MatchCandidates : LookupExpectedEventHandle(criteria)

SpecMatch == MatchInit /\ [][MatchNext]_vars

\* no request in flight carries the present time as its stamp
FreshStamp == \A i \in DOMAIN requests : requests[i].requestListeningTime # now

\* as PollNext, with the clock advancing between two calls of startListening()
PollFreshNext ==
    \/ Tick
    \/ \E callback \in Callbacks : AddEventListener(callback)
    \/ \E callback \in SyncCallbacks : AddSyncListenCallback(callback)
    \/ \E ignore \in BOOLEAN : SetIgnoreListenErrors(ignore)
    \/ FreshStamp /\ StartListening
    \/ StopListening
    \/ FreshStamp /\ VisibilityChange
    \/ \E i \in DOMAIN timers : WaitTimer(i)
    \/ \E i \in DOMAIN requests : \E result \in Batches : ListenSuccess(i, result)
    \/ \E i \in DOMAIN requests : \E error \in ListenErrors : ListenFailure(i, error)
    \/ SyncCallback

SpecPollFresh == Init /\ [][PollFreshNext]_vars

\* the last value of the clock where every deadline is meant to be reached
SweepEnd == DEFAULT_EXPECT_TIMEOUT + MaxSweepTime

\* the clock moves on by a millisecond or by the default timeout; the milliseconds
\* between MaxSweepTime and the default timeout, where the registry sees nothing
\* new, are passed in one step
ClockSteps == {1, DEFAULT_EXPECT_TIMEOUT}

Advance(d) ==
    /\ d = 1 => (now < MaxSweepTime \/ now > DEFAULT_EXPECT_TIMEOUT)
    /\ now + d <= SweepEnd
    /\ now' = now + d
    /\ last' = [NoLast EXCEPT !.op = "tick"]
    /\ UNCHANGED <<eventListeners, registryVars, pollVars, ignoreListenErrors,
                   syncListenCallbacks>>

\* expectEvent(), called while the clock can still pass the deadline of the entry
ExpectEventInTime(a) ==
    /\ now + (IF a.timeout = NullTimeout THEN DEFAULT_EXPECT_TIMEOUT ELSE a.timeout)
          < SweepEnd
    /\ ExpectEvent(a)

\* the expectation registry under the sweep of init(), the poll loop being started
\* once, never answered, and stopped
SweepNext ==
    \/ \E d \in ClockSteps : Advance(d)
    \/ \E a \in ExpectArgs : ExpectEventInTime(a)
    \/ \E handle \in 1..MaxHandle : UnexpectEvent(handle)
    \/ \E a \in WaitArgs : WaitExpectedEvent(a)
    \/ CleanupExpectedEvents
    \/ \E eventData \in EventData : FakeServerEvent(eventData)
    \/ requests = <<>> /\ StartListening
    \/ StopListening

\* setInterval(cleanupExpectedEvents, 1000) keeps calling the sweep, and the clock
\* keeps moving on
SweepFairness ==
    /\ WF_vars(CleanupExpectedEvents)
    /\ WF_vars(\E d \in ClockSteps : Advance(d))

SpecSweep == Init /\ [][SweepNext]_vars /\ SweepFairness

\* the poll loop started and stopped while expectations are pending and the server
\* fails
StopNext ==
    \/ \E a \in ExpectArgs : ExpectEvent(a)
    \/ \E a \in WaitArgs : WaitExpectedEvent(a)
    \/ \E callback \in Callbacks : AddEventListener(callback)
    \/ \E callback \in SyncCallbacks : AddSyncListenCallback(callback)
    \/ StartListening
    \/ StopListening
    \/ \E i \in DOMAIN timers : WaitTimer(i)
    \/ \E i \in DOMAIN requests : \E error \in ListenErrors : ListenFailure(i, error)
    \/ SyncCallback

SpecStop == Init /\ [][StopNext]_vars

\* the expectation registry and two listeners, fed by fake events, with the promises
\* of the waiters
SettleNext ==
    \/ FakeNext
    \/ \E w \in 1..MaxWaiters : Settle(w)

SpecSettle == Init /\ [][SettleNext]_vars

\* the values that addEventListener() is called with: the callback alone, with a
\* context, and with a context and one more value to hand on
ListenerArgs ==
    UNION {{<<callback>>, <<callback, "ctx">>, <<callback, "ctx", "extra">>} :
             callback \in Callbacks}

\* the listeners, registered with and without bound values, removed, and called
\* with fake events
ListenersNext ==
    \/ \E given \in ListenerArgs : AddEventListenerGiven(given, MaxFakeListeners)
    \/ \E callback \in Callbacks : RemoveEventListener(callback)
    \/ \E eventData \in EventData : FakeServerEvent(eventData)

SpecListeners == Init /\ [][ListenersNext]_vars

(* ------------------------------ properties ----------------------------- *)

Dispatched(l) == l.op = "fakeServerEvent" \/ (l.op = "listenSuccess" /\ l.accepted)
Answered(l) == l.op = "listenSuccess" \/ l.op = "listenFailure"

\* the expectation has the event's type and params that are a key-subset of the event's
SubsetOf(eventSpec, event) ==
    /\ eventSpec.type = event.type
    /\ ~eventSpec.params.isNull
    /\ eventSpec.params.kv \subseteq event.params.kv

\* the same, an unset type or unset params matching anything
MatchedBy(eventSpec, event) ==
    /\ eventSpec.type = "" \/ eventSpec.type = event.type
    /\ eventSpec.params.isNull \/ eventSpec.params.kv \subseteq event.params.kv

Attached(w, handle) == waiters[w].handle = handle

\* the events dispatched in order: each one that a pending expectation awaits
\* resolves one matching expectation, which is pending no more for the next event
RECURSIVE ResolvesOnePerEvent(_, _, _)
ResolvesOnePerEvent(specs, events, resolved) ==
    IF events = <<>> THEN resolved = <<>>
    ELSE LET event == Head(events)
             did == /\ resolved # <<>>
                    /\ Head(resolved).kind = "matched"
                    /\ Head(resolved).event = event
                    /\ Head(resolved).handle \in DOMAIN specs
             awaited == \E h \in DOMAIN specs : SubsetOf(specs[h], event)
         IN  IF did
             THEN /\ MatchedBy(specs[Head(resolved).handle], event)
                  /\ event.expected
                  /\ ResolvesOnePerEvent(Without(specs, Head(resolved).handle),
                                         Tail(events), Tail(resolved))
             ELSE /\ ~awaited
                  /\ ResolvesOnePerEvent(specs, Tail(events), resolved)

Handles(resolved) == {resolved[k].handle : k \in DOMAIN resolved}

\* C1: every dispatched event (from the server or fake) that a pending expectation
\* awaits resolves exactly one matching expectation: its handlers receive that event,
\* which carries expected = true as do the clones the listeners receive, and it
\* leaves the registry; an expectation resolved earlier and its handlers are not
\* touched by a later dispatch.
C1_ResolveOnce ==
    [][Dispatched(last') =>
         /\ ResolvesOnePerEvent(expectedEventSpecs, last'.handled, last'.resolved)
         /\ expectedEventSpecs' =
              [h \in DOMAIN expectedEventSpecs \ Handles(last'.resolved) |->
                 expectedEventSpecs[h]]
         /\ \A k \in DOMAIN last'.resolved : \A w \in DOMAIN waiters :
              Attached(w, last'.resolved[k].handle) =>
                 waiters'[w].calls = Append(waiters[w].calls,
                    [kind |-> "event", event |-> last'.resolved[k].event])
         /\ \A k \in DOMAIN last'.calls : \E j \in DOMAIN last'.handled :
              last'.calls[k].event = last'.handled[j]
         /\ \A h \in DOMAIN fate : fate[h] # <<>> =>
              /\ fate'[h] = fate[h]
              /\ h \notin DOMAIN expectedEventSpecs'
              /\ \A w \in DOMAIN waiters : Attached(w, h) => waiters'[w] = waiters[w]]_vars

\* an event was dispatched a second time after it had resolved an expectation with
\* a handler attached, and resolved nothing
C1_Witness ==
    /\ last.op = "fakeServerEvent"
    /\ last.resolved = <<>>
    /\ \E w \in DOMAIN waiters :
         /\ waiters[w].calls # <<>>
         /\ waiters[w].calls[1].kind = "event"
         /\ waiters[w].calls[1].event.expected
         /\ waiters[w].calls[1].event.type = last.handled[1].type
         /\ waiters[w].calls[1].event.params = last.handled[1].params

Overdue(eventSpec) == now - eventSpec.added > eventSpec.timeout

\* C2: an expectation ends at most once; the sweep ends every pending expectation
\* whose age exceeds its timeout with a timeout failure handed once to each of its
\* handlers, and only those; an expectation that a match or a cancellation has ended
\* is not ended again.
C2_SweepExpiresOnce ==
    [][/\ \A h \in DOMAIN fate :
            /\ Len(fate'[h]) <= 1
            /\ fate[h] # <<>> => fate'[h] = fate[h]
            /\ (fate[h] = <<>> /\ fate'[h] = <<"timeout">>) =>
                  /\ last'.op = "cleanupExpectedEvents"
                  /\ h \in DOMAIN expectedEventSpecs
                  /\ Overdue(expectedEventSpecs[h])
       /\ last'.op = "cleanupExpectedEvents" =>
            \A h \in DOMAIN expectedEventSpecs : Overdue(expectedEventSpecs[h]) =>
               /\ fate'[h] = <<"timeout">>
               /\ h \notin DOMAIN expectedEventSpecs'
       /\ \A w \in DOMAIN waiters' :
            /\ Len(waiters'[w].calls) <= 1
            /\ fate'[waiters'[w].handle] = <<"timeout">> =>
                  waiters'[w].calls = <<[kind |-> "timeout"]>>]_vars

\* the sweep has just expired an expectation with a handler attached, while another
\* expectation had been matched before
C2_Witness ==
    /\ last.op = "cleanupExpectedEvents"
    /\ last.resolved # <<>>
    /\ \E w \in DOMAIN waiters : waiters[w].calls = <<[kind |-> "timeout"]>>
    /\ \E h \in DOMAIN fate : fate[h] = <<"matched">>

\* C3: the response (success or failure) to a request that stopListening() or
\* startListening() has superseded changes neither the registry nor the error counter
\* nor the recorded error, reaches no listener and no sync callback, and schedules
\* no poll cycle.
C3_StaleResponseDiscarded ==
    [][(Answered(last') /\ last'.request.superseded) =>
          /\ UNCHANGED <<expectedEventSpecs, waiters, fate, listenErrorCount,
                         syncListenError, timers, deferred>>
          /\ last'.calls = <<>>
          /\ last'.notified = <<>>
          /\ last'.scheduled = <<>>]_vars

\* the poll cycles whose response the guard will accept: the requests in flight that
\* carry the current stamp, and the scheduled wait() calls, which will capture it
LiveCycles ==
    Cardinality({i \in DOMAIN requests : requests[i].requestListeningTime = listeningTime})
       + Len(timers)

\* C4: there is never more than one poll cycle (request in flight or scheduled
\* wait() call) whose response will be accepted.
C4_SinglePollChain == LiveCycles <= 1

\* C5: while listening is stopped the poll loop does nothing: no scheduled wait()
\* issues a request, no response is accepted, dispatched to listeners or reported to
\* sync callbacks, and no poll cycle is scheduled.
C5_NoEffectWhileStopped ==
    [][(listeningTime = NullTime /\ (last'.op = "wait" \/ Answered(last'))) =>
          /\ last'.issued = 0
          /\ ~last'.accepted
          /\ last'.calls = <<>>
          /\ last'.notified = <<>>
          /\ last'.scheduled = <<>>]_vars

\* C6: every event of an accepted batch reaches every listener, in order, whether
\* or not a listener throws.
C6_ListenersIsolated ==
    (last.op = "listenSuccess" /\ last.accepted) =>
       /\ Len(last.calls) = Len(last.batch) * Len(eventListeners)
       /\ \A k \in DOMAIN last.batch : \A i \in DOMAIN eventListeners :
            LET call == last.calls[(k - 1) * Len(eventListeners) + i]
            IN  /\ call.index = i
                /\ call.callback = eventListeners[i].callback
                /\ call.event.type = last.batch[k].type
                /\ call.event.params = last.batch[k].params

\* the request was issued under the stamp that is current when its response arrives
Current(request) ==
    listeningTime # NullTime /\ request.requestListeningTime = listeningTime

\* C7: with ignoreListenErrors unset, the first and the second failure in a row
\* schedule the next cycle after 1 second, the third and later ones after the retry
\* interval, and the sync callbacks are given the delay that is scheduled.
C7_FastReconnectTwice ==
    (last.op = "listenFailure" /\ Current(last.request) /\ ~ignoreListenErrors) =>
       /\ failures >= 1
       /\ failures \in {1, 2} => last.scheduled = <<1000>>
       /\ failures >= 3 => last.scheduled = <<SERVER_RETRY_INTERVAL * 1000>>
       /\ Len(last.notified) = Len(syncListenCallbacks)
       /\ \A k \in DOMAIN last.notified :
            /\ last.notified[k].withError
            /\ <<last.notified[k].reconnectSeconds * 1000>> = last.scheduled

\* the third failure in a row was reported to a sync callback
C7_Witness ==
    /\ last.op = "listenFailure"
    /\ Current(last.request)
    /\ ~ignoreListenErrors
    /\ failures = 3
    /\ last.scheduled = <<SERVER_RETRY_INTERVAL * 1000>>
    /\ last.notified # <<>>

\* C8: a failure of the current generation while ignoreListenErrors is set leaves
\* the error counter and the recorded error as they are, notifies no sync callback
\* and schedules the next poll cycle.
C8_IgnoredFailure ==
    [][(last'.op = "listenFailure" /\ Current(last'.request) /\ ignoreListenErrors) =>
          /\ UNCHANGED <<listenErrorCount, syncListenError, deferred>>
          /\ last'.notified = <<>>
          /\ Len(last'.scheduled) = 1
          /\ timers' = Append(timers, [delay |-> last'.scheduled[1]])]_vars

\* a failure was ignored while an earlier error was recorded and a sync callback was
\* registered
C8_Witness ==
    /\ last.op = "listenFailure"
    /\ Current(last.request)
    /\ ignoreListenErrors
    /\ last.scheduled # <<>>
    /\ listenErrorCount > 0
    /\ syncListenCallbacks # <<>>

\* C9: startListening() while listening throws and changes nothing: the stamp stays
\* and no request is issued.
C9_StartTwiceFails ==
    [][(last'.op = "startListening" /\ listeningTime # NullTime) =>
          /\ last'.threw
          /\ last'.issued = 0
          /\ UNCHANGED <<listeningTime, requests, timers, sessionId, listenErrorCount,
                         syncListenError, deferred, expectedEventSpecs,
                         eventListeners, syncListenCallbacks>>]_vars

\* startListening() has thrown while a request was in flight
C9_Witness ==
    /\ last.op = "startListening"
    /\ last.threw
    /\ requests # <<>>

\* C10: an accepted successful response schedules exactly one poll cycle and leaves
\* no error counted or recorded, also when the processing of its batch throws.
C10_OneCyclePerSuccess ==
    [][(last'.op = "listenSuccess"
          /\ last'.request.requestListeningTime = listeningTime) =>
          /\ last'.scheduled = <<0>>
          /\ timers' = Append(timers, [delay |-> 0])
          /\ listenErrorCount' = 0
          /\ syncListenError' = NullError]_vars

\* a listener has thrown while the batch of an accepted response was processed
C10_Witness ==
    /\ last.op = "listenSuccess"
    /\ last.accepted
    /\ last.threw
    /\ last.scheduled = <<0>>

\* the positions in the order of handling at which event k is resolved, and at which
\* it reaches a listener
ResolveSteps(l, k) == {i \in DOMAIN l.order : l.order[i].step = "resolve" /\ l.order[i].k = k}
CallSteps(l, k) == {i \in DOMAIN l.order : l.order[i].step = "call" /\ l.order[i].k = k}

IsCall(o) == o.step = "call"

\* the listener calls of a dispatch in the order they were made, each as the pair of
\* the event's position in the batch and the listener's position in the registry
CallPairs(l) ==
    LET made == SelectSeq(l.order, IsCall)
    IN  [p \in DOMAIN made |-> <<made[p].k, l.calls[made[p].c].index>>]

\* every event to every listener: events in the order of the batch, and for each
\* event the listeners in the order of registration
AllPairs(nEvents, nListeners) ==
    [p \in 1..(nEvents * nListeners) |->
       <<((p - 1) \div nListeners) + 1, ((p - 1) % nListeners) + 1>>]

\* C12: the listener calls made for an accepted batch are exactly one call per event
\* and listener, the events in server order and the listeners in registration order,
\* each call carrying a copy of its event; an empty batch makes no call.
C12_EveryEventToEveryListener ==
    (last.op = "listenSuccess" /\ last.accepted) =>
       /\ CallPairs(last) = AllPairs(Len(last.batch), Len(eventListeners))
       /\ \A c \in DOMAIN last.calls :
            /\ last.calls[c].callback = eventListeners[last.calls[c].index].callback
            /\ \E p \in DOMAIN last.order :
                  /\ last.order[p].c = c
                  /\ last.calls[c].event.type = last.batch[last.order[p].k].type
                  /\ last.calls[c].event.params = last.batch[last.order[p].k].params
                  /\ ~last.calls[c].event.fake

\* the call that a handler receives when its expectation ends in the given way
KindOfEnd(end) == IF end = "matched" THEN "event" ELSE end

\* the number of times handler w is registered with the pending expectations
Registrations(w) ==
    Cardinality({<<h, i>> \in (DOMAIN expectedEventSpecs) \X (1..MaxWaiters) :
                   /\ i \in DOMAIN expectedEventSpecs[h].handlers
                   /\ expectedEventSpecs[h].handlers[i] = w})

\* C13: a handler attached by waitExpectedEvent is called at most once: not at all
\* while its expectation is pending, where it is registered once, and exactly once
\* when the expectation has ended, with the event if it was matched, the timeout
\* failure if it expired and the cancellation failure if it was cancelled; after
\* that it is registered nowhere.
C13_WaiterSettledOnce ==
    \A w \in DOMAIN waiters :
       LET handle == waiters[w].handle
       IN  IF handle \in DOMAIN expectedEventSpecs
           THEN /\ waiters[w].calls = <<>>
                /\ fate[handle] = <<>>
                /\ Registrations(w) = 1
                /\ \E i \in DOMAIN expectedEventSpecs[handle].handlers :
                      expectedEventSpecs[handle].handlers[i] = w
           ELSE /\ Len(waiters[w].calls) = 1
                /\ Len(fate[handle]) = 1
                /\ waiters[w].calls[1].kind = KindOfEnd(fate[handle][1])
                /\ waiters[w].calls[1].kind \in {"event", "timeout", "cancelled"}
                /\ Registrations(w) = 0

\* two handlers were attached to one expectation and settled with the event; a later
\* sweep, cancellation or dispatch has left them as they were
C13_Witness ==
    /\ Len(waiters) = 2
    /\ waiters[1].handle = waiters[2].handle
    /\ \A w \in 1..2 : Len(waiters[w].calls) = 1 /\ waiters[w].calls[1].kind = "event"
    /\ last.op \in {"cleanupExpectedEvents", "unexpectEvent", "fakeServerEvent"}
    /\ last.resolved = <<>>
    /\ last.op = "unexpectEvent" => last.arg = waiters[1].handle

\* C14: unexpectEvent(handle) for a handle that is not pending (never returned, or
\* already matched, expired or cancelled) calls no handler and leaves the registry,
\* the handle counter and the listeners as they are; so a second unexpectEvent of
\* the same handle right after the first changes nothing.
C14_UnexpectIdempotent ==
    [][/\ (last'.op = "unexpectEvent" /\ last'.arg \notin DOMAIN expectedEventSpecs) =>
             /\ UNCHANGED <<expectedEventSpecs, expectedEventLastHandle, waiters, fate,
                            eventListeners>>
             /\ last'.resolved = <<>>
             /\ ~last'.threw
       /\ (last.op = "unexpectEvent" /\ last'.op = "unexpectEvent"
             /\ last'.arg = last.arg) =>
             UNCHANGED <<expectedEventSpecs, expectedEventLastHandle, waiters, fate,
                         eventListeners>>]_vars

\* unexpectEvent was called for a handle cancelled before, while another expectation
\* was pending with a handler attached
C14_Witness ==
    /\ last.op = "unexpectEvent"
    /\ last.resolved = <<>>
    /\ fate[last.arg] = <<"cancelled">>
    /\ \E w \in DOMAIN waiters :
         /\ waiters[w].handle # last.arg
         /\ waiters[w].handle \in DOMAIN expectedEventSpecs
         /\ waiters[w].calls = <<>>

\* what a handler receives from unexpectEvent (Error 'Event no longer expected') and
\* from the sweep (Error 'Timeout waiting for expected event')
CancellationFailure == [kind |-> "cancelled"]
TimeoutFailure == [kind |-> "timeout"]

\* C15: unexpectEvent(handle) for a pending expectation calls each handler attached
\* to it once with the cancellation failure, which is not the timeout failure, calls
\* no other handler and removes that entry and no other; a handler that has received
\* the cancellation failure is never called again, by no event and no sweep.
C15_UnexpectCancels ==
    [][/\ (last'.op = "unexpectEvent" /\ last'.arg \in DOMAIN expectedEventSpecs) =>
             /\ expectedEventSpecs' =
                  [h \in DOMAIN expectedEventSpecs \ {last'.arg} |-> expectedEventSpecs[h]]
             /\ DOMAIN waiters' = DOMAIN waiters
             /\ \A w \in DOMAIN waiters :
                  IF waiters[w].handle = last'.arg
                  THEN /\ waiters'[w].calls = <<CancellationFailure>>
                       /\ waiters'[w].calls # <<TimeoutFailure>>
                  ELSE waiters'[w] = waiters[w]
       /\ \A w \in DOMAIN waiters :
            waiters[w].calls = <<CancellationFailure>> => waiters'[w] = waiters[w]]_vars

\* two handlers attached to one expectation have received the cancellation failure,
\* and an event that the criteria of every expectation they could join match has
\* been dispatched since, resolving nothing
C15_Witness ==
    /\ Len(waiters) = 2
    /\ waiters[1].handle = waiters[2].handle
    /\ \A w \in 1..2 : waiters[w].calls = <<CancellationFailure>>
    /\ last.op = "fakeServerEvent"
    /\ last.handled = <<Event("x", Obj({<<"id", 1>>, <<"value", 1>>}), FALSE, TRUE)>>
    /\ last.resolved = <<>>

\* the pending expectations that match the criteria (type, params): the type is that
\* of the entry and every key of the entry's params has the same value in params,
\* omitted params having no key
Matching(specs, criteria) == {h \in DOMAIN specs : MatchedBy(specs[h], criteria)}

\* waitExpectedEvent has returned a promise rejected with 'No such expected event'
NoSuchExpectedEvent(l) == l.op = "waitExpectedEvent" /\ ~l.threw /\ l.arg = NullHandle

\* C16: waitExpectedEvent(type, params), params given or omitted, called when no
\* pending expectation matches, fails with 'No such expected event' and leaves the
\* registry, its handlers and the handle counter as they are; no call of
\* waitExpectedEvent adds an expectation.
C16_WaitWithoutMatchFails ==
    [][last'.op = "waitExpectedEvent" =>
         /\ DOMAIN expectedEventSpecs' = DOMAIN expectedEventSpecs
         /\ expectedEventLastHandle' = expectedEventLastHandle
         /\ Matching(expectedEventSpecs, last'.criteria) = {} =>
               /\ NoSuchExpectedEvent(last')
               /\ UNCHANGED <<expectedEventSpecs, waiters, fate>>]_vars

\* C17: fakeServerEvent(type, params) issues no request and schedules no poll cycle;
\* when a pending expectation matches, the first one is removed and each of its
\* handlers receives the event with fake = true and expected = true; every registered
\* listener, in order, receives a copy of the event with fake = true.
C17_FakeEventDispatched ==
    [][last'.op = "fakeServerEvent" =>
         LET type == last'.batch[1].type
             params == last'.batch[1].params
             matching == Matching(expectedEventSpecs, last'.batch[1])
         IN  /\ UNCHANGED <<requests, timers, sessionId, listeningTime, deferred>>
             /\ matching = {} => UNCHANGED <<expectedEventSpecs, waiters>>
             /\ matching # {} =>
                   /\ expectedEventSpecs' =
                        [h \in DOMAIN expectedEventSpecs \ {Min(matching)} |->
                           expectedEventSpecs[h]]
                   /\ \A w \in DOMAIN waiters :
                        IF waiters[w].handle = Min(matching)
                        THEN waiters'[w].calls =
                               <<[kind |-> "event",
                                  event |-> Event(type, params, TRUE, TRUE)]>>
                        ELSE waiters'[w] = waiters[w]
             /\ Len(last'.calls) = Len(eventListeners)
             /\ \A i \in DOMAIN eventListeners :
                   /\ last'.calls[i].callback = eventListeners[i].callback
                   /\ last'.calls[i].event = Event(type, params, matching # {}, TRUE)]_vars

\* C18: the lookup finds an entry for a candidate (type, params) exactly when the
\* entry's type is unset or equal to the candidate's and the entry's params are unset
\* or each of their keys is a key of the candidate's params with the same value
\* (keys that only the candidate has do not count); otherwise it finds none.
C18_MatchIsSubset ==
    last.op = "lookupExpectedEventHandle" =>
       /\ ~last.threw
       /\ last.arg = 1 <=> MatchedBy(expectedEventSpecs[1], last.criteria)
       /\ last.arg = NullHandle <=> ~MatchedBy(expectedEventSpecs[1], last.criteria)

Returned == 1..expectedEventLastHandle

\* C20: expectEvent returns a handle greater than every handle returned before, which
\* has never named an expectation, pending or ended, and adds under it a new entry
\* without handlers, leaving every other entry as it is, whatever their types and
\* params; the pending and the ended expectations all bear returned handles, and no
\* other operation changes the handle counter.
C20_HandlesStrictlyIncrease ==
    [][/\ DOMAIN expectedEventSpecs \subseteq Returned
       /\ \A h \in DOMAIN fate : fate[h] # <<>> => h \in Returned
       /\ IF last'.op = "expectEvent"
          THEN /\ \A h \in Returned : last'.arg > h
               /\ expectedEventLastHandle' = last'.arg
               /\ fate[last'.arg] = <<>>
               /\ DOMAIN expectedEventSpecs' = DOMAIN expectedEventSpecs \cup {last'.arg}
               /\ \A h \in DOMAIN expectedEventSpecs :
                    expectedEventSpecs'[h] = expectedEventSpecs[h]
               /\ expectedEventSpecs'[last'.arg].handlers = <<>>
               /\ expectedEventSpecs'[last'.arg].added = now
          ELSE expectedEventLastHandle' = expectedEventLastHandle]_vars

\* the third handle has been returned after the first expectation was resolved, for
\* an expectation with the type and params of the second, which is pending as well
C20_Witness ==
    /\ last.op = "expectEvent"
    /\ last.arg = 3
    /\ fate[1] # <<>>
    /\ {2, 3} \subseteq DOMAIN expectedEventSpecs
    /\ expectedEventSpecs[2].type = expectedEventSpecs[3].type
    /\ expectedEventSpecs[2].params = expectedEventSpecs[3].params

\* the request that the last handler has issued
Issued == requests[Len(requests)]

\* C21: the request issued by startListening() carries the timeout 1; the request
\* issued by a scheduled wait() carries 1 when the cycle that scheduled it had failed
\* (it was scheduled with a delay, by setTimeout) and LISTEN_KEEPALIVE when that
\* cycle had succeeded (it was scheduled at once, by asap).
C21_QuickAfterErrorOrStart ==
    (last.issued = 1) =>
       IF last.op = "wait"
       THEN Issued.timeout = (IF last.arg > 0 THEN 1 ELSE LISTEN_KEEPALIVE)
       ELSE Issued.timeout = 1

\* C22: when a successful response has been accepted, no error is counted or
\* recorded, whatever was before, and the one poll cycle it scheduled runs at once
\* (asap, delay 0), not after a reconnect delay.
C22_SuccessResetsAndContinues ==
    (last.op = "listenSuccess" /\ last.accepted) =>
       /\ listenErrorCount = 0
       /\ syncListenError = NullError
       /\ failures = 0
       /\ last.scheduled # <<>>
       /\ \A k \in DOMAIN last.scheduled : last.scheduled[k] = 0
       /\ timers # <<>>
       /\ timers[Len(timers)] = [delay |-> 0]

\* a successful response was accepted after three failures in a row had been counted
C22_Witness ==
    /\ last.op = "listenSuccess"
    /\ last.accepted
    /\ last.errors = 3
    /\ listenErrorCount = 0
    /\ timers[Len(timers)] = [delay |-> 0]


\* the deferred invocations that the response handler which has just run owes: one
\* per registered sync callback, in registration order, for an accepted success
\* (no error) or an accepted failure that is not ignored (with the delay of the
\* next cycle, in seconds), and none otherwise
Owed(l, callbacks, ignore) ==
    IF ~l.accepted \/ l.op \notin {"listenSuccess", "listenFailure"} THEN <<>>
    ELSE IF l.op = "listenSuccess"
    THEN [i \in DOMAIN callbacks |->
            [callback |-> callbacks[i], withError |-> FALSE, reconnectSeconds |-> 0]]
    ELSE IF ignore THEN <<>>
    ELSE [i \in DOMAIN callbacks |->
            [callback |-> callbacks[i], withError |-> TRUE,
             reconnectSeconds |-> l.scheduled[Len(l.scheduled)] \div 1000]]

\* C23: a response handler invokes no sync callback itself; it leaves exactly one
\* deferred invocation per registered sync callback when it accepted a success or a
\* failure that is not ignored, and none otherwise.  A deferred invocation runs once,
\* in its turn: without an error after a success, with the recorded error and the
\* reconnect delay after a failure.  No other step adds, drops or runs one.
C23_SyncCallbacksOncePerCycle ==
    [][ /\ last'.op \in {"listenSuccess", "listenFailure"} =>
            deferred' = deferred \o Owed(last', syncListenCallbacks, ignoreListenErrors)
        /\ last'.op = "syncCallback" =>
            /\ deferred # <<>>
            /\ deferred' = Tail(deferred)
            /\ last'.arg.callback = Head(deferred).callback
            /\ last'.arg.reconnectSeconds = Head(deferred).reconnectSeconds
            /\ IF Head(deferred).withError
               THEN /\ last'.arg.error \in ListenErrors
                    /\ last'.arg.reconnectSeconds =
                          (IF failures <= FAST_RECONNECT_LISTEN_ERRORS
                           THEN 1 ELSE SERVER_RETRY_INTERVAL)
               ELSE /\ last'.arg.error = NullError
                    /\ last'.arg.reconnectSeconds = 0
        /\ last'.op \notin {"listenSuccess", "listenFailure", "syncCallback"} =>
            deferred' = deferred
      ]_vars

\* the sync callback has been invoked with the error of the third failure in a row
\* and the steady-state retry interval
C23_Witness ==
    /\ last.op = "syncCallback"
    /\ last.arg.callback \in SyncCallbacks
    /\ last.arg.error \in ListenErrors
    /\ last.arg.reconnectSeconds = SERVER_RETRY_INTERVAL
    /\ failures = 3
    /\ deferred = <<>>

\* C24: every registered expectation is eventually resolved, once, and removed, and
\* every handler attached to one is eventually called, whether the poll loop is
\* listening or not, given that the sweep keeps running and the clock keeps moving on.
C24_EveryExpectationEnds ==
    /\ \A h \in 1..MaxHandle :
          (h \in DOMAIN expectedEventSpecs)
             ~> (h \notin DOMAIN expectedEventSpecs /\ Len(fate[h]) = 1)
    /\ \A w \in 1..MaxWaiters :
          (w \in DOMAIN waiters) ~> (w \in DOMAIN waiters /\ Len(waiters[w].calls) = 1)

\* with the poll loop stopped, the sweep has ended an expectation that had the
\* default timeout and has called the handler attached to it
C24_Witness ==
    /\ last.op = "cleanupExpectedEvents"
    /\ listeningTime = NullTime
    /\ requests # <<>>
    /\ now > DEFAULT_EXPECT_TIMEOUT
    /\ \E i \in DOMAIN last.resolved :
          /\ last.resolved[i].kind = "timeout"
          /\ fate[last.resolved[i].handle] = <<"timeout">>
          /\ \E w \in DOMAIN waiters :
                /\ waiters[w].handle = last.resolved[i].handle
                /\ waiters[w].calls = <<[kind |-> "timeout"]>>
    /\ expectedEventSpecs = <<>>

\* what stopListening() leaves of the requests in flight: everything that the program
\* holds of them
Untouched(reqs) ==
    [i \in DOMAIN reqs |->
       [requestListeningTime |-> reqs[i].requestListeningTime, timeout |-> reqs[i].timeout]]

\* C25: stopListening() sets the generation stamp to null and changes nothing else:
\* no expectation is resolved or removed, no handler of a waiter is called, and the
\* listeners, the sync callbacks, the session id, the error counter and the recorded
\* error stay as they are; a startListening() that follows finds the error counter
\* and the recorded error as they were and leaves them so.
C25_StopChangesOnlyStamp ==
    [][ /\ last'.op = "stopListening" =>
            /\ listeningTime' = NullTime
            /\ last'.resolved = <<>>
            /\ last'.calls = <<>>
            /\ Untouched(requests') = Untouched(requests)
            /\ UNCHANGED <<now, eventListeners, expectedEventSpecs,
                           expectedEventLastHandle, waiters, fate, syncListenCallbacks,
                           sessionId, listenErrorCount, syncListenError,
                           ignoreListenErrors, timers, deferred>>
        /\ last'.op = "startListening" =>
            UNCHANGED <<listenErrorCount, syncListenError>>
      ]_vars

\* stopListening() has run after two failures were counted, with a waiter attached
\* to a pending expectation, a listener and a sync callback registered
C25_Witness ==
    /\ last.op = "stopListening"
    /\ listeningTime = NullTime
    /\ listenErrorCount = 2
    /\ syncListenError \in ListenErrors
    /\ sessionId # NullSession
    /\ eventListeners # <<>>
    /\ syncListenCallbacks # <<>>
    /\ \E w \in DOMAIN waiters :
          /\ waiters[w].calls = <<>>
          /\ waiters[w].handle \in DOMAIN expectedEventSpecs

\* the age of a pending expectation has not passed its timeout
Young(specs, h, t) == h \in DOMAIN specs /\ t - specs[h].added <= specs[h].timeout

\* C26: expectEvent() stores the timeout it is given, and 60 seconds when it is given
\* none; no expectation ends with a timeout failure, and no handler is called with
\* one, while the age of the expectation is less than or equal to its timeout.
C26_NoPrematureTimeout ==
    [][ /\ last'.op = "expectEvent" =>
            \E a \in ExpectArgs :
               expectedEventSpecs'[last'.arg] =
                  [type |-> a.type, params |-> a.params, added |-> now,
                   timeout |-> IF a.timeout = NullTimeout THEN 60 * 1000 ELSE a.timeout,
                   handlers |-> <<>>]
        /\ \A h \in DOMAIN fate :
              (Len(fate'[h]) > Len(fate[h]) /\ fate'[h][Len(fate'[h])] = "timeout")
                 => /\ h \in DOMAIN expectedEventSpecs
                    /\ ~Young(expectedEventSpecs, h, now')
        /\ \A w \in DOMAIN waiters :
              (/\ Len(waiters'[w].calls) > Len(waiters[w].calls)
               /\ waiters'[w].calls[Len(waiters'[w].calls)].kind = "timeout")
                 => /\ waiters[w].handle \in DOMAIN expectedEventSpecs
                    /\ ~Young(expectedEventSpecs, waiters[w].handle, now')
      ]_vars

\* the sweep has run over an expectation registered without a timeout whose age is
\* exactly 60 seconds, and over one whose age is past its timeout: it has kept the
\* first, with its handler not called, and ended the second
C26_Witness ==
    /\ last.op = "cleanupExpectedEvents"
    /\ Len(last.resolved) = 1
    /\ \E h \in DOMAIN expectedEventSpecs :
          /\ expectedEventSpecs[h].timeout = DEFAULT_EXPECT_TIMEOUT
          /\ now - expectedEventSpecs[h].added = 60 * 1000
          /\ \E w \in DOMAIN waiters : waiters[w].handle = h /\ waiters[w].calls = <<>>

\* the waiters whose handler the step has called
Called(ws1, ws2) == {w \in DOMAIN ws1 : Len(ws2[w].calls) > Len(ws1[w].calls)}

\* C27: when an event resolves an expectation that a waiter is attached to, the
\* handling of the event is complete before the promise of the waiter is settled:
\* the step that calls the handler leaves the promise unsettled, the event it hands
\* over has expected = true (and fake = true when it is a fake event), and every
\* registered listener has been called with that event; the promise is settled by a
\* later step.
C27_SettledAfterAllHandling ==
    [][ /\ last'.op \in {"fakeServerEvent", "listenSuccess"} =>
            \A w \in Called(waiters, waiters') :
               LET call == waiters'[w].calls[Len(waiters'[w].calls)]
               IN  /\ ~waiters'[w].settled
                   /\ call.kind = "event"
                   /\ call.event.expected
                   /\ last'.op = "fakeServerEvent" => call.event.fake
                   /\ \A i \in DOMAIN eventListeners :
                         \E c \in DOMAIN last'.calls :
                            /\ last'.calls[c].index = i
                            /\ last'.calls[c].event = call.event
        /\ last'.op = "settle" =>
            /\ waiters[last'.arg].calls # <<>>
            /\ ~waiters[last'.arg].settled
            /\ waiters'[last'.arg].settled
      ]_vars

\* C28: while listening is active there is always a poll cycle that keeps the loop
\* alive: a request in flight that carries the current stamp, or a scheduled wait()
\* call, which will capture it.
C28_LoopNeverDies == (listeningTime # NullTime) => LiveCycles >= 1

\* after a restart, the only live cycle is the one that an ignored failure of the
\* new generation has scheduled, a request of the old generation being still in flight
C28_Witness ==
    /\ listeningTime # NullTime
    /\ last.op = "listenFailure"
    /\ last.accepted
    /\ ~last.request.superseded
    /\ ignoreListenErrors
    /\ LiveCycles = 1
    /\ Len(timers) = 1
    /\ \E i \in DOMAIN requests :
          requests[i].superseded /\ requests[i].requestListeningTime # listeningTime

\* an error is recorded exactly when failures are counted
ErrorIffCounted(sle, count) == (sle # NullError) <=> (count > 0)

\* C29: in every state an error is recorded exactly when the counter of consecutive
\* errors is greater than zero.  An accepted failure that is not ignored records its
\* error and adds one to the counter; an accepted success clears both; no other step
\* (an ignored failure, a discarded response, stopListening(), startListening())
\* touches either.
C29_ErrorRecordedIffCounted ==
    [][ /\ ErrorIffCounted(syncListenError, listenErrorCount)
        /\ ErrorIffCounted(syncListenError', listenErrorCount')
        /\ IF last'.op = "listenFailure" /\ last'.accepted /\ ~ignoreListenErrors
           THEN /\ syncListenError' \in ListenErrors
                /\ listenErrorCount' = listenErrorCount + 1
           ELSE IF last'.op = "listenSuccess" /\ last'.accepted
           THEN /\ syncListenError' = NullError
                /\ listenErrorCount' = 0
           ELSE UNCHANGED <<syncListenError, listenErrorCount>>
      ]_vars

\* a failure has been accepted and ignored after two failures were counted: the
\* counter and the recorded error are as they were
C29_Witness ==
    /\ last.op = "listenFailure"
    /\ last.accepted
    /\ ignoreListenErrors
    /\ last.errors = 2
    /\ listenErrorCount = 2
    /\ syncListenError \in ListenErrors

\* the values bound at registration: those given after the callback and the context
Extras(listener) == SubSeq(listener.args.items, 3, Len(listener.args.items))

\* the listeners without the first registration of the callback, if there is one
WithoutFirst(listeners, callback) ==
    LET found == {i \in DOMAIN listeners : listeners[i].callback = callback}
    IN  IF found = {} THEN listeners
        ELSE [i \in 1..(Len(listeners) - 1) |->
                IF i < Min(found) THEN listeners[i] ELSE listeners[i + 1]]

\* C30: a listener is called on its context with a clone of the event, followed by
\* exactly the values bound at its registration after the callback and the context,
\* and by nothing that holds the callback or the context; removeEventListener(callback)
\* removes the first registration of the callback and nothing else, and changes
\* nothing when there is none.
C30_ListenerArguments ==
    [][ /\ last'.op = "fakeServerEvent" =>
            \A c \in DOMAIN last'.calls :
               LET call == last'.calls[c]
                   listener == eventListeners[call.index]
               IN  /\ call.callback = listener.callback
                   /\ call.thisArg = listener.thisArg
                   /\ \E k \in DOMAIN last'.handled : call.event = last'.handled[k]
                   /\ call.rest = [i \in DOMAIN Extras(listener) |->
                                     Plain(Extras(listener)[i])]
        /\ last'.op = "removeEventListener" =>
            eventListeners' = WithoutFirst(eventListeners, last'.arg)
      ]_vars
====
